---- MODULE Spec2Model ----
(***************************************************************************)
(* A model of the data-access layer of evergreen-server (src/sqlclient.py) *)
(* and of the HTTP handlers of src/main.py that call it.                   *)
(*                                                                         *)
(* The database (tables shows, users, show_partners) is the shared state.  *)
(* Every call of SqlClient._execute_query is one atomic step: it opens a   *)
(* connection, runs one statement, commits when asked to, and closes the   *)
(* connection.  A repository method that issues several statements takes   *)
(* several steps, so the statements of concurrent requests interleave.     *)
(***************************************************************************)
EXTENDS Integers, Sequences, FiniteSets, TLC

----------------------------------------------------------------------------
(* Bounds of the model. *)

\* number of distinct ids os.urandom(16).hex() may produce
NumShowIds == 2
\* number of user ids
NumUsers == 2
\* connections that may be left open before new probes stop being modelled
MaxOpenConns == 2

ShowIds == 1..NumShowIds
Procs == {"r1", "r2"}
UserIds == 1..NumUsers

----------------------------------------------------------------------------
(* Python values.  Every value is a record tagged with its type in t.      *)

PyNone == [t |-> "none"]
PyInt(n) == [t |-> "int", v |-> n]
PyStr(s) == [t |-> "str", s |-> s]
PyDict(d) == [t |-> "dict", d |-> d]

Titles == {PyStr("Pod A"), PyStr("Pod B")}
\* a Python string holding JSON text; the text of an object is the sequence
\* of its <<key, string value>> members, a member cut short is malformed
JsonText(members) == [t |-> "str", json |-> members]
\* str(e) of an exception e
StrOfError(e) == [t |-> "str", exc |-> e]

\* Python truthiness, as used by `x or 0`
Truthy(x) ==
    CASE x.t = "none" -> FALSE
      [] x.t = "int" -> x.v # 0
      [] x.t = "str" -> x # PyStr("")
      [] OTHER -> TRUE

\* str(x)
Str(x) ==
    CASE x.t = "int" -> PyStr(ToString(x.v))
      [] x.t = "none" -> PyStr("None")
      [] OTHER -> x

\* x or y
Or(x, y) == IF Truthy(x) THEN x ELSE y

\* d.get(k, default) and d.pop(k, default) (the value) of a dict given as a
\* function from its keys
Get(d, k, default) == IF k \in DOMAIN d THEN d[k] ELSE default

\* the dict d without the keys ks
Without(d, ks) == [k \in DOMAIN d \ ks |-> d[k]]

\* the dict d with d[k] = v
With(d, k, v) == [x \in DOMAIN d \cup {k} |-> IF x = k THEN v ELSE d[x]]

----------------------------------------------------------------------------
(* Revenue codec.                                                          *)

Years == <<"2023", "2024", "2025">>
RevenueFields == <<"revenue_2023", "revenue_2024", "revenue_2025">>
RevenueFieldSet == {RevenueFields[i] : i \in DOMAIN RevenueFields}

\* json.dumps of a dict whose keys are Years, in insertion order
JsonDumps(d) == JsonText([i \in DOMAIN Years |-> <<Years[i], d[Years[i]].s>>])

JSONDecodeError == [t |-> "JSONDecodeError"]

WellFormed(text) == \A i \in DOMAIN text.json : Len(text.json[i]) = 2

JsonKeys(text) == {text.json[i][1] : i \in DOMAIN text.json}

\* the value of the last member of the text with key k
JsonMember(text, k) ==
    LET last == CHOOSE i \in DOMAIN text.json :
                   /\ text.json[i][1] = k
                   /\ \A j \in DOMAIN text.json : text.json[j][1] = k => j <= i
    IN  PyStr(text.json[last][2])

\* json.loads of JSON text: the dict, or the JSONDecodeError it raises
JsonLoads(text) ==
    IF WellFormed(text)
    THEN PyDict([k \in JsonKeys(text) |-> JsonMember(text, k)])
    ELSE JSONDecodeError

EmptyDict == << >>

RevenueFieldOf(year) ==
    RevenueFields[CHOOSE i \in DOMAIN Years : Years[i] = year]

YearSet == {Years[i] : i \in DOMAIN Years}

\* a faulty variant of CreateAnnualUsdData: a value that is None or 0 is not
\* replaced by 0
CreateAnnualUsdDataNoCoercion(show_dict) ==
    [y \in YearSet |-> Str(Get(show_dict, RevenueFieldOf(y), PyInt(0)))]

\* annual_usd_data of create_podcast: str(show_dict.pop(field, 0) or 0) per year
CreateAnnualUsdData(show_dict) ==
    [y \in YearSet |->
        Str(Or(Get(show_dict, RevenueFieldOf(y), PyInt(0)), PyInt(0)))]

\* a faulty variant of UpdateAnnualUsdData: a year the payload does not hold
\* is not defaulted to 0
UpdateAnnualUsdDataNoDefault(show_dict) ==
    [y \in YearSet |-> Str(Get(show_dict, RevenueFieldOf(y), PyNone))]

\* annual_usd_data of update_podcast: the loop over the three (year, field)
\* pairs runs whatever the payload holds
UpdateAnnualUsdData(show_dict) ==
    [y \in YearSet |->
        Str(Or(Get(show_dict, RevenueFieldOf(y), PyInt(0)), PyInt(0)))]

\* the three read-model fields set from the decoded map annual_usd
WithRevenue(show, annual_usd) ==
    [k \in DOMAIN show \cup RevenueFieldSet |->
        IF k \in RevenueFieldSet
        THEN Get(annual_usd,
                 Years[CHOOSE i \in DOMAIN Years : RevenueFields[i] = k],
                 PyInt(0))
        ELSE show[k]]

\* the loop body of get_all_podcasts
DecodeForGetAll(show) ==
    LET annual_usd_raw == Get(show, "annual_usd", PyNone)
        annual_usd ==
            IF annual_usd_raw.t = "str"
            THEN IF JsonLoads(annual_usd_raw) = JSONDecodeError
                 THEN EmptyDict
                 ELSE JsonLoads(annual_usd_raw).d
            ELSE IF annual_usd_raw.t = "dict" THEN annual_usd_raw.d
            ELSE EmptyDict
    IN  WithRevenue(With(show, "annual_usd", PyDict(annual_usd)), annual_usd)

\* "if 'annual_usd' in show and isinstance(show['annual_usd'], str)" with its
\* json.loads, shared by create_podcast and update_podcast
LoadAnnualUsd(show) ==
    IF "annual_usd" \in DOMAIN show /\ show["annual_usd"].t = "str"
    THEN With(show, "annual_usd",
              IF JsonLoads(show["annual_usd"]) = JSONDecodeError
              THEN PyDict(EmptyDict)
              ELSE JsonLoads(show["annual_usd"]))
    ELSE show

\* the response of create_podcast built from the re-selected row
DecodeForCreate(new_show) ==
    LET show == LoadAnnualUsd(new_show)
        got == Or(Get(show, "annual_usd", PyNone), PyDict(EmptyDict))
        annual_usd == IF got.t = "dict" THEN got.d ELSE EmptyDict
    IN  WithRevenue(show, annual_usd)

\* the response of update_podcast built from the re-selected row; the value
\* is only asked for when show.get('annual_usd', {}) is a dict
DecodeForUpdate(updated_show) ==
    LET show == LoadAnnualUsd(updated_show)
        annual_usd == Get(show, "annual_usd", PyDict(EmptyDict))
    IN  WithRevenue(show, annual_usd.d)

\* whether annual_usd.get(...) of update_podcast raises AttributeError
DecodeForUpdateRaises(updated_show) ==
    Get(LoadAnnualUsd(updated_show), "annual_usd", PyDict(EmptyDict)).t # "dict"

----------------------------------------------------------------------------
(* The database and the statements the code sends to it.                   *)

VARIABLES
    shows,          \* table shows: id -> row (a dict of its columns)
    users,          \* table users: id -> row
    show_partners,  \* table show_partners: the rows <<show_id, partner_id>>
    openConns,      \* connections opened and not closed
    pc,             \* where each request is in the method it runs
    local,          \* the method's variables that are still read
    ret             \* what the method gave back to its caller

vars == <<shows, users, show_partners, openConns, pc, local, ret>>

DB == [shows |-> shows, users |-> users, show_partners |-> show_partners]

PyList(items) == [t |-> "list", items |-> items]

RECURSIVE InIdOrder(_, _)
\* the rows of table with the ids in S, by ascending primary key
InIdOrder(table, S) ==
    IF S = {} THEN << >>
    ELSE LET m == CHOOSE x \in S : \A y \in S : x <= y
         IN  <<table[m]>> \o InIdOrder(table, S \ {m})

\* a faulty variant of FetchOne: the row is never seen
FetchOneNothing(rows) == PyNone

\* fetchone() of a result set
FetchOne(rows) == IF rows = << >> THEN PyNone ELSE rows[1]

\* the statements, each with its fetch mode and whether it is committed
SelectAllShows == [kind |-> "SELECT * FROM shows", fetch |-> "all",
                   is_transaction |-> FALSE]
SelectShowById(show_id) ==
    [kind |-> "SELECT * FROM shows WHERE id", id |-> show_id, fetch |-> "one",
     is_transaction |-> FALSE]
SelectShowsWhere(values) ==
    [kind |-> "SELECT * FROM shows WHERE", values |-> values, fetch |-> "all",
     is_transaction |-> FALSE]
\* a faulty variant of SelectIdByTitle: the pre-check compares another column
SelectIdByOtherColumn(title) ==
    [kind |-> "SELECT id FROM shows WHERE qbo_show_name", title |-> title,
     fetch |-> "one", is_transaction |-> FALSE]
SelectIdByTitle(title) ==
    [kind |-> "SELECT id FROM shows WHERE title", title |-> title,
     fetch |-> "one", is_transaction |-> FALSE]
InsertShow(show_dict) ==
    [kind |-> "INSERT INTO shows", row |-> show_dict, fetch |-> "none",
     is_transaction |-> TRUE]
UpdateShow(show_id, show_dict) ==
    [kind |-> "UPDATE shows SET", id |-> show_id, set |-> show_dict,
     fetch |-> "none", is_transaction |-> TRUE]
\* a faulty variant of DeleteShow: the id is compared with another column
DeleteShowByOtherColumn(show_id) ==
    [kind |-> "DELETE FROM shows WHERE title", id |-> show_id,
     fetch |-> "none", is_transaction |-> TRUE]
DeleteShow(show_id) ==
    [kind |-> "DELETE FROM shows WHERE id", id |-> show_id, fetch |-> "none",
     is_transaction |-> TRUE]
DeleteShowPartners(user_id) ==
    [kind |-> "DELETE FROM show_partners WHERE partner_id", id |-> user_id,
     fetch |-> "none", is_transaction |-> TRUE]
DeleteUserRow(user_id) ==
    [kind |-> "DELETE FROM users WHERE id", id |-> user_id, fetch |-> "none",
     is_transaction |-> TRUE]
SelectUserById(user_id) ==
    [kind |-> "SELECT * FROM users WHERE id", id |-> user_id, fetch |-> "one",
     is_transaction |-> FALSE]
SelectUserByEmail(email) ==
    [kind |-> "SELECT * FROM users WHERE email", email |-> email,
     fetch |-> "one", is_transaction |-> FALSE]
SelectAllUsers == [kind |-> "SELECT * FROM users", fetch |-> "all",
                   is_transaction |-> FALSE]
SelectOne == [kind |-> "SELECT 1", fetch |-> "one", is_transaction |-> FALSE]

IntegrityError == [phase |-> "statement", type |-> "IntegrityError",
                   code |-> 1062]

\* cursor.execute(query, params) on the database db: the database after the
\* statement, the result set, the number of affected rows the server reports
\* (for UPDATE the rows it changed: the connection does not ask for the
\* number of rows matched), and the error the server raises
RunStatement(db, stmt) ==
    LET same == [db |-> db, rows |-> << >>, rows_affected |-> 0,
                 exc |-> PyNone]
        ids  == DOMAIN db.shows
    IN  CASE stmt.kind = "SELECT * FROM shows" ->
               LET r == InIdOrder(db.shows, ids)
               IN  [same EXCEPT !.rows = r, !.rows_affected = Len(r)]
          [] stmt.kind = "SELECT * FROM shows WHERE id" ->
               LET r == InIdOrder(db.shows, ids \cap {stmt.id})
               IN  [same EXCEPT !.rows = r, !.rows_affected = Len(r)]
          [] stmt.kind = "SELECT * FROM shows WHERE" ->
               LET hit == {i \in ids : \A c \in DOMAIN stmt.values :
                               db.shows[i][c] = stmt.values[c]}
                   r == InIdOrder(db.shows, hit)
               IN  [same EXCEPT !.rows = r, !.rows_affected = Len(r)]
          [] stmt.kind = "SELECT id FROM shows WHERE title" ->
               LET hit == {i \in ids : db.shows[i]["title"] = stmt.title}
                   r == InIdOrder([i \in hit |-> [id |-> i]], hit)
               IN  [same EXCEPT !.rows = r, !.rows_affected = Len(r)]
          [] stmt.kind = "INSERT INTO shows" ->
               IF stmt.row["id"] \in ids
               THEN [same EXCEPT !.exc = IntegrityError]
               ELSE [same EXCEPT
                       !.db.shows = With(db.shows, stmt.row["id"], stmt.row),
                       !.rows_affected = 1]
          [] stmt.kind = "UPDATE shows SET" ->
               IF stmt.id \notin ids THEN same
               ELSE LET old == db.shows[stmt.id]
                        new == [c \in DOMAIN old |->
                                   IF c \in DOMAIN stmt.set THEN stmt.set[c]
                                   ELSE old[c]]
                    IN  [same EXCEPT
                           !.db.shows = [db.shows EXCEPT ![stmt.id] = new],
                           !.rows_affected = IF new = old THEN 0 ELSE 1]
          [] stmt.kind = "DELETE FROM shows WHERE id" ->
               [same EXCEPT !.db.shows = Without(db.shows, {stmt.id}),
                            !.rows_affected = Cardinality(ids \cap {stmt.id})]
          [] stmt.kind = "DELETE FROM show_partners WHERE partner_id" ->
               LET gone == {r \in db.show_partners : r[2] = stmt.id}
               IN  [same EXCEPT !.db.show_partners = db.show_partners \ gone,
                                !.rows_affected = Cardinality(gone)]
          [] stmt.kind = "DELETE FROM users WHERE id" ->
               LET uids == DOMAIN db.users
               IN  [same EXCEPT !.db.users = Without(db.users, {stmt.id}),
                                !.rows_affected =
                                    Cardinality(uids \cap {stmt.id})]
          [] stmt.kind = "SELECT * FROM users WHERE id" ->
               LET r == InIdOrder(db.users, DOMAIN db.users \cap {stmt.id})
               IN  [same EXCEPT !.rows = r, !.rows_affected = Len(r)]
          [] stmt.kind = "SELECT * FROM users WHERE email" ->
               LET hit == {u \in DOMAIN db.users :
                               db.users[u]["email"] = stmt.email}
                   r == InIdOrder(db.users, hit)
               IN  [same EXCEPT !.rows = r, !.rows_affected = Len(r)]
          [] stmt.kind = "SELECT * FROM users" ->
               LET r == InIdOrder(db.users, DOMAIN db.users)
               IN  [same EXCEPT !.rows = r, !.rows_affected = Len(r)]
          [] stmt.kind = "SELECT 1" ->
               [same EXCEPT !.rows = <<[one |-> 1]>>, !.rows_affected = 1]
          [] OTHER -> same

----------------------------------------------------------------------------
(* Connection provider and query executor.                                 *)

\* What the driver does in one call: nothing goes wrong, pymysql.connect
\* raises, or the statement raises inside the with block.
Ok == [phase |-> "none"]
AccessDenied == [phase |-> "connect", type |-> "OperationalError",
                 code |-> 1045]
CantConnect == [phase |-> "connect", type |-> "OperationalError",
                code |-> 2003]
LockWaitTimeout == [phase |-> "statement", type |-> "OperationalError",
                    code |-> 1205]
ProgrammingError == [phase |-> "statement", type |-> "ProgrammingError",
                     code |-> 1064]

Outcomes == {Ok, AccessDenied, CantConnect, LockWaitTimeout, ProgrammingError}

DatabaseConnectionError(msg, e) ==
    [t |-> "exc", cls |-> "DatabaseConnectionError", msg |-> msg, cause |-> e]
DatabaseCredentialsError(msg, e) ==
    [t |-> "exc", cls |-> "DatabaseCredentialsError", msg |-> msg, cause |-> e]

\* the except clauses of get_db_connection: they catch what pymysql.connect
\* raises and what the body of the with block raises at the yield
ProviderRaises(e) ==
    IF e.type = "OperationalError"
    THEN CASE e.code = 1045 ->
                DatabaseCredentialsError("Database credentials invalid", e)
           [] e.code = 2003 ->
                DatabaseConnectionError("Cannot connect to database server", e)
           [] e.code = 1049 ->
                DatabaseConnectionError("Database does not exist", e)
           [] OTHER ->
                DatabaseConnectionError("Database connection failed", e)
    ELSE DatabaseConnectionError("Unexpected database error", e)

\* get_db_connection around a body that raises body_exc (PyNone: nothing):
\* how many connections it opens and closes, and what leaves the with block
GetDbConnection(outcome, body_exc) ==
    IF outcome.phase = "connect"
    THEN [opened |-> 0, closed |-> 0, error |-> ProviderRaises(outcome)]
    ELSE [opened |-> 1,
          closed |-> 1,     \* finally: if connection: connection.close()
          error |-> IF body_exc = PyNone THEN PyNone
                    ELSE ProviderRaises(body_exc)]

\* _execute_query(query, params, fetch, is_transaction) on the database db
\* when the driver behaves as outcome says: the tuple it returns, the
\* database it leaves, and the connections it opened and closed
ExecuteQuery(db, stmt, outcome) ==
    LET run == RunStatement(db, stmt)
        body_exc == IF outcome.phase = "statement" THEN outcome ELSE run.exc
        cm == GetDbConnection(outcome, body_exc)
        result == CASE stmt.fetch = "one" -> FetchOne(run.rows)
                    [] stmt.fetch = "all" -> PyList(run.rows)
                    [] OTHER -> PyNone
    IN  IF cm.error = PyNone
        THEN [result |-> result, rows_affected |-> run.rows_affected,
              error |-> PyNone,
              db |-> IF stmt.is_transaction THEN run.db ELSE db,
              opened |-> cm.opened, closed |-> cm.closed]
        ELSE [result |-> PyNone, rows_affected |-> 0, error |-> cm.error,
              db |-> db, opened |-> cm.opened, closed |-> cm.closed]

\* isinstance(error, (DatabaseConnectionError, DatabaseCredentialsError))
IsFatal(error) ==
    /\ error.t = "exc"
    /\ error.cls \in {"DatabaseConnectionError", "DatabaseCredentialsError"}

\* the error message test_database_connection gives for the exception e
ProbeMessage(e) ==
    IF e.type = "OperationalError"
    THEN CASE e.code = 1045 -> PyStr("Database credentials invalid")
           [] e.code = 2003 -> PyStr("Cannot connect to database server")
           [] e.code = 1049 -> PyStr("Database does not exist")
           [] OTHER -> PyStr("Database connection failed")
    ELSE PyStr("Unexpected database error")

\* test_database_connection: (success, error_message) and the connections
\* it opened and closed; connection.close() is the last call of the try
\* body, so it is reached only when SELECT 1 did not raise.  Otherwise the
\* connection object is dropped without close(): whether it is closed by
\* the time the call exits is up to the interpreter's collector (collected)
TestDatabaseConnection(outcome, collected) ==
    CASE outcome.phase = "none" ->
           [success |-> TRUE, error |-> PyNone, opened |-> 1, closed |-> 1]
      [] outcome.phase = "connect" ->
           [success |-> FALSE, error |-> ProbeMessage(outcome),
            opened |-> 0, closed |-> 0]
      [] OTHER ->
           [success |-> FALSE, error |-> ProbeMessage(outcome),
            opened |-> 1, closed |-> IF collected THEN 1 ELSE 0]

----------------------------------------------------------------------------
(* Requests.  Each request of Procs runs one repository method at a time;  *)
(* a method returns to its caller before any other request takes a step    *)
(* (the return touches nothing shared).                                    *)

PyBool(b) == [t |-> "bool", b |-> b]
\* the tuple (a, b) a method returns
PyTuple(a, b) == [t |-> "tuple", items |-> <<a, b>>]
NoLocals == [m |-> "none"]
NoReturn == [kind |-> "none"]
Returned(value) == [kind |-> "returned", value |-> value]
Raised(error) == [kind |-> "raised", error |-> error]

NoPendingReturn == \A q \in Procs : pc[q] # "done"

\* the effect of one _execute_query call on the database and the connections
Executed(q) ==
    /\ shows' = q.db.shows
    /\ users' = q.db.users
    /\ show_partners' = q.db.show_partners
    /\ openConns' = openConns + q.opened - q.closed

\* the method ends: it returns a value or raises, and its caller is left
\* with the outcome of the method it called
Finish(p, method, r) ==
    /\ pc' = [pc EXCEPT ![p] = "done"]
    /\ local' = [local EXCEPT ![p] = [m |-> method]]
    /\ ret' = [ret EXCEPT ![p] = r]

\* the method goes on to its next statement
Goto(p, label, locals) ==
    /\ pc' = [pc EXCEPT ![p] = label]
    /\ local' = [local EXCEPT ![p] = locals]
    /\ ret' = ret

\* the caller takes the result
Return(p) ==
    /\ pc[p] = "done"
    /\ pc' = [pc EXCEPT ![p] = "idle"]
    /\ local' = [local EXCEPT ![p] = NoLocals]
    /\ ret' = [ret EXCEPT ![p] = NoReturn]
    /\ UNCHANGED <<shows, users, show_partners, openConns>>

----------------------------------------------------------------------------
(* Show repository.                                                        *)

GetAllPodcastsResult(q) ==
    IF q.error # PyNone
    THEN IF IsFatal(q.error) THEN Raised(q.error)
         ELSE Returned(PyList(<< >>))
    ELSE Returned(PyList([i \in DOMAIN q.result.items |->
                             DecodeForGetAll(q.result.items[i])]))

GetAllPodcasts(p, outcome) ==
    /\ pc[p] = "idle" /\ NoPendingReturn
    /\ LET q == ExecuteQuery(DB, SelectAllShows, outcome)
       IN  Executed(q) /\ Finish(p, "get_all_podcasts", GetAllPodcastsResult(q))

GetPodcastByIdResult(q) ==
    IF q.error # PyNone
    THEN IF IsFatal(q.error) THEN Raised(q.error)
         ELSE Returned(PyTuple(PyNone, StrOfError(q.error)))
    ELSE Returned(PyTuple(q.result, PyNone))

GetPodcastById(p, show_id, outcome) ==
    /\ pc[p] = "idle" /\ NoPendingReturn
    /\ LET q == ExecuteQuery(DB, SelectShowById(show_id), outcome)
       IN  Executed(q) /\ Finish(p, "get_podcast_by_id", GetPodcastByIdResult(q))

\* the where clauses of filter_podcasts: one per entry that is not None
FilterValues(filters) ==
    [k \in {c \in DOMAIN filters : filters[c] # PyNone} |-> filters[k]]

FilterPodcastsResult(q) ==
    IF q.error # PyNone
    THEN IF IsFatal(q.error) THEN Raised(q.error)
         ELSE Returned(PyTuple(PyNone, q.error))
    ELSE Returned(PyTuple(q.result, PyNone))

FilterPodcasts(p, filters, outcome) ==
    /\ pc[p] = "idle" /\ NoPendingReturn
    /\ LET q == ExecuteQuery(DB, SelectShowsWhere(FilterValues(filters)),
                             outcome)
       IN  Executed(q) /\ Finish(p, "filter_podcasts", FilterPodcastsResult(q))

DuplicateTitle == PyStr("A show with the title already exists.")

\* create_podcast up to the pre-check's verdict
CreateCheck(p, show_data, outcome) ==
    /\ pc[p] = "idle" /\ NoPendingReturn
    /\ LET q == ExecuteQuery(DB, SelectIdByTitle(show_data["title"]), outcome)
       IN  /\ Executed(q)
           /\ IF q.error # PyNone
              THEN IF IsFatal(q.error) THEN Finish(p, "create_podcast", Raised(q.error))
                   ELSE Finish(p, "create_podcast", Returned(PyTuple(PyNone, StrOfError(q.error))))
              ELSE IF q.result # PyNone
                   THEN Finish(p, "create_podcast", Returned(PyTuple(PyNone, DuplicateTitle)))
                   ELSE Goto(p, "create_insert", [show_data |-> show_data])

\* the row create_podcast inserts for show_data under the generated show_id
CreateRow(show_data, show_id) ==
    LET show_dict == With(Without(show_data, {"annual_usd"}), "id", show_id)
    IN  With(Without(show_dict, RevenueFieldSet), "annual_usd",
             JsonDumps(CreateAnnualUsdData(show_dict)))

\* create_podcast from os.urandom to the INSERT's verdict
CreateInsert(p, show_id, outcome) ==
    /\ pc[p] = "create_insert" /\ NoPendingReturn
    /\ LET row == CreateRow(local[p].show_data, show_id)
           q == ExecuteQuery(DB, InsertShow(row), outcome)
       IN  /\ Executed(q)
           /\ IF q.error # PyNone
              THEN IF IsFatal(q.error) THEN Finish(p, "create_podcast", Raised(q.error))
                   ELSE Finish(p, "create_podcast", Returned(PyTuple(PyNone, q.error)))
              ELSE Goto(p, "create_fetch", [show_id |-> show_id])

TypeError == PyStr("argument of type 'NoneType' is not iterable")
AttributeError == PyStr("'NoneType' object has no attribute 'get'")

\* create_podcast from the re-select to its return
CreateFetch(p, outcome) ==
    /\ pc[p] = "create_fetch" /\ NoPendingReturn
    /\ LET q == ExecuteQuery(DB, SelectShowById(local[p].show_id), outcome)
       IN  /\ Executed(q)
           /\ IF q.error # PyNone
              THEN IF IsFatal(q.error) THEN Finish(p, "create_podcast", Raised(q.error))
                   ELSE Finish(p, "create_podcast", Returned(PyTuple(PyNone, q.error)))
              ELSE IF q.result = PyNone
                   THEN Finish(p, "create_podcast", Returned(PyTuple(PyNone, TypeError)))
                   ELSE Finish(p, "create_podcast", Returned(PyTuple(DecodeForCreate(q.result),
                                             PyNone)))

\* a faulty variant of NoUpdateData: the message is worded otherwise
NoUpdateDataReworded == PyStr("No fields to update")

NoUpdateData == PyStr("No update data provided")
NotFound == PyStr("Podcast with id not found")

\* the SET clause of update_podcast for the payload show_data
UpdateShowDict(show_data) ==
    LET show_dict == Without(show_data, {"annual_usd"})
    IN  With(Without(show_dict, RevenueFieldSet), "annual_usd",
             JsonDumps(UpdateAnnualUsdData(show_dict)))

\* update_podcast up to the UPDATE's verdict; show_data is the payload as
\* model_dump(exclude_unset=True) gives it
UpdatePodcast(p, show_id, show_data, outcome) ==
    /\ pc[p] = "idle" /\ NoPendingReturn
    /\ IF DOMAIN show_data = {}
       THEN /\ Finish(p, "update_podcast", Returned(PyTuple(PyNone, NoUpdateData)))
            /\ UNCHANGED <<shows, users, show_partners, openConns>>
       ELSE LET q == ExecuteQuery(DB, UpdateShow(show_id,
                                         UpdateShowDict(show_data)), outcome)
            IN  /\ Executed(q)
                /\ IF q.error # PyNone
                   THEN IF IsFatal(q.error) THEN Finish(p, "update_podcast", Raised(q.error))
                        ELSE Finish(p, "update_podcast", Returned(PyTuple(PyNone,
                                                  StrOfError(q.error))))
                   ELSE IF q.rows_affected = 0
                        THEN Finish(p, "update_podcast", Returned(PyTuple(PyNone, NotFound)))
                        ELSE Goto(p, "update_fetch", [show_id |-> show_id])

\* update_podcast from the re-select to its return
UpdateFetch(p, outcome) ==
    /\ pc[p] = "update_fetch" /\ NoPendingReturn
    /\ LET q == ExecuteQuery(DB, SelectShowById(local[p].show_id), outcome)
       IN  /\ Executed(q)
           /\ IF q.error # PyNone
              THEN IF IsFatal(q.error) THEN Finish(p, "update_podcast", Raised(q.error))
                   ELSE Finish(p, "update_podcast", Returned(PyTuple(PyNone, StrOfError(q.error))))
              ELSE IF q.result = PyNone
                   THEN Finish(p, "update_podcast", Returned(PyTuple(PyNone, TypeError)))
                   ELSE IF DecodeForUpdateRaises(q.result)
                        THEN Finish(p, "update_podcast", Returned(PyTuple(PyNone, AttributeError)))
                        ELSE Finish(p, "update_podcast", Returned(PyTuple(DecodeForUpdate(q.result),
                                                  PyNone)))

DeletePodcastResult(q) ==
    IF q.error # PyNone
    THEN IF IsFatal(q.error) THEN Raised(q.error)
         ELSE Returned(PyTuple(PyBool(FALSE), StrOfError(q.error)))
    ELSE IF q.rows_affected = 0
         THEN Returned(PyTuple(PyBool(FALSE), NotFound))
         ELSE Returned(PyTuple(PyBool(TRUE), PyNone))

DeletePodcast(p, show_id, outcome) ==
    /\ pc[p] = "idle" /\ NoPendingReturn
    /\ LET q == ExecuteQuery(DB, DeleteShow(show_id), outcome)
       IN  Executed(q) /\ Finish(p, "delete_podcast", DeletePodcastResult(q))

----------------------------------------------------------------------------
(* User repository and construction of the client.                         *)

UserNotFound == PyStr("User not found")

\* delete_user up to its first statement, whose returned tuple it drops
DeleteUserUnassociate(p, user_id, outcome) ==
    /\ pc[p] = "idle" /\ NoPendingReturn
    /\ LET q == ExecuteQuery(DB, DeleteShowPartners(user_id), outcome)
       IN  /\ Executed(q)
           /\ Goto(p, "delete_user", [user_id |-> user_id])

DeleteUserResult(q) ==
    IF q.error # PyNone
    THEN IF IsFatal(q.error) THEN Raised(q.error)
         ELSE Returned(PyTuple(PyBool(FALSE), StrOfError(q.error)))
    ELSE IF q.rows_affected = 0
         THEN Returned(PyTuple(PyBool(FALSE), UserNotFound))
         ELSE Returned(PyTuple(PyBool(TRUE), PyNone))

\* delete_user from its second statement to its return
DeleteUserDelete(p, outcome) ==
    /\ pc[p] = "delete_user" /\ NoPendingReturn
    /\ LET q == ExecuteQuery(DB, DeleteUserRow(local[p].user_id), outcome)
       IN  Executed(q) /\ Finish(p, "delete_user", DeleteUserResult(q))

\* get_all_users, get_user_by_email, get_user_by_id: (rows, error)
UserLookupResult(q) ==
    IF q.error # PyNone /\ IsFatal(q.error) THEN Raised(q.error)
    ELSE Returned(PyTuple(q.result, q.error))

GetAllUsers(p, outcome) ==
    /\ pc[p] = "idle" /\ NoPendingReturn
    /\ LET q == ExecuteQuery(DB, SelectAllUsers, outcome)
       IN  Executed(q) /\ Finish(p, "get_all_users", UserLookupResult(q))

GetUserByEmail(p, email, outcome) ==
    /\ pc[p] = "idle" /\ NoPendingReturn
    /\ LET q == ExecuteQuery(DB, SelectUserByEmail(email), outcome)
       IN  Executed(q) /\ Finish(p, "get_user_by_email", UserLookupResult(q))

GetUserById(p, user_id, outcome) ==
    /\ pc[p] = "idle" /\ NoPendingReturn
    /\ LET q == ExecuteQuery(DB, SelectUserById(user_id), outcome)
       IN  Executed(q) /\ Finish(p, "get_user_by_id", UserLookupResult(q))

\* SqlClient(): __init__ and verify_connection
Construct(p, outcome, collected) ==
    /\ pc[p] = "idle" /\ NoPendingReturn
    /\ openConns < MaxOpenConns
    /\ LET probe == TestDatabaseConnection(outcome, collected)
       IN  /\ openConns' = openConns + probe.opened - probe.closed
           /\ IF ~probe.success
              THEN Finish(p, "__init__", Raised(DatabaseConnectionError(
                          "Failed to initialize database client", probe.error)))
              ELSE Finish(p, "__init__", Returned(PyNone))
    /\ UNCHANGED <<shows, users, show_partners>>

----------------------------------------------------------------------------
(* HTTP handlers: what they make of the outcome of the method they called. *)

\* needle in text, for the messages of the model: none of them holds the
\* text of another, so a message holds the needle when it is the needle
\* (str(e) of a driver error never is)
Contains(needle, text) ==
    /\ text.t = "str"
    /\ "s" \in DOMAIN text
    /\ text.s = needle

\* the status the handler update_podcast answers with when the method ended
\* as r says; an exception the method raises leaves the handler (500)
UpdateHandlerStatus(r) ==
    IF r.kind = "raised" THEN 500
    ELSE LET error == r.value.items[2]
         IN  IF Truthy(error)
             THEN IF Contains("No update data provided", error) THEN 400
                  ELSE 404
             ELSE 200

----------------------------------------------------------------------------
(* The inputs the requests are called with, and the database at the start. *)

Email(user_id) == ToString(user_id) \o "@example.com"

\* ShowCreate payloads: a title and the three revenue inputs (None: missing)
CreateRevenues ==
    { [revenue_2023 |-> PyNone, revenue_2024 |-> PyNone,
       revenue_2025 |-> PyNone],
      [revenue_2023 |-> PyInt(100), revenue_2024 |-> PyNone,
       revenue_2025 |-> PyNone],
      [revenue_2023 |-> PyStr("100"), revenue_2024 |-> PyInt(0),
       revenue_2025 |-> PyNone] }

CreateInputs == {With(r, "title", title) : r \in CreateRevenues,
                                            title \in Titles}

\* ShowUpdate payloads, as the fields that were set
UpdateInputs ==
    { EmptyDict,
      [title |-> PyStr("Pod B")],
      [revenue_2024 |-> PyInt(50)],
      [title |-> PyStr("Pod A"), revenue_2023 |-> PyInt(100)],
      [revenue_2023 |-> PyStr("100"), revenue_2024 |-> PyInt(0)] }

FilterInputs == {EmptyDict} \cup {[title |-> title] : title \in Titles}

\* annual_usd values written by other means than this code: NULL, text cut
\* short, an object without all three years
LegacyAnnualUsd ==
    { PyNone,
      JsonText(<< <<"2023">> >>),
      JsonText(<< <<"2023", "100">> >>) }

InitialShows ==
    {EmptyDict} \cup
    { (1 :> [id |-> 1, title |-> PyStr("Pod A"), annual_usd |-> a]) :
          a \in LegacyAnnualUsd }

InitialUsers == [u \in UserIds |-> [id |-> u, email |-> Email(u)]]

\* user 1 is partner of every show, the other users of show 1
InitialShowPartners ==
    {<<s, u>> \in ShowIds \X UserIds : u = 1 \/ s = 1}

Init ==
    /\ shows \in InitialShows
    /\ users = InitialUsers
    /\ show_partners = InitialShowPartners
    /\ openConns = 0
    /\ pc = [p \in Procs |-> "idle"]
    /\ local = [p \in Procs |-> NoLocals]
    /\ ret = [p \in Procs |-> NoReturn]

\* one step of request p in a method of the show repository
ShowStep(p, outcome) ==
    \/ GetAllPodcasts(p, outcome)
    \/ \E show_id \in ShowIds : GetPodcastById(p, show_id, outcome)
    \/ \E filters \in FilterInputs : FilterPodcasts(p, filters, outcome)
    \/ \E show_data \in CreateInputs : CreateCheck(p, show_data, outcome)
    \/ \E show_id \in ShowIds : CreateInsert(p, show_id, outcome)
    \/ CreateFetch(p, outcome)
    \/ \E show_id \in ShowIds, show_data \in UpdateInputs :
          UpdatePodcast(p, show_id, show_data, outcome)
    \/ UpdateFetch(p, outcome)
    \/ \E show_id \in ShowIds : DeletePodcast(p, show_id, outcome)

\* the requests on shows, handled concurrently
Next ==
    \/ \E p \in Procs, outcome \in Outcomes : ShowStep(p, outcome)
    \/ \E p \in Procs : Return(p)

Spec == Init /\ [][Next]_vars

\* the requests on users, and the construction of clients
UserStep(p, outcome) ==
    \/ \E user_id \in UserIds : DeleteUserUnassociate(p, user_id, outcome)
    \/ DeleteUserDelete(p, outcome)
    \/ GetAllUsers(p, outcome)
    \/ \E user_id \in UserIds : GetUserById(p, user_id, outcome)
    \/ \E user_id \in UserIds : GetUserByEmail(p, Email(user_id), outcome)

NextUsers ==
    \/ \E p \in Procs, outcome \in Outcomes :
          \/ \E collected \in BOOLEAN : Construct(p, outcome, collected)
          \/ UserStep(p, outcome)
    \/ \E p \in Procs : Return(p)

SpecUsers == Init /\ [][NextUsers]_vars

----------------------------------------------------------------------------
(* Properties.                                                             *)

ConnectFailures == {o \in Outcomes : o.phase = "connect"}
StatementFailures == {o \in Outcomes : o.phase = "statement"}

Alone(p) == \A q \in Procs \ {p} : pc[q] = "idle"

TitlesUnique ==
    \A i, j \in DOMAIN shows : shows[i]["title"] = shows[j]["title"] => i = j

TitleStored(title) == \E i \in DOMAIN shows : shows[i]["title"] = title

\* the step leaves request p inside method, or with the method's outcome
Calls(p, method) ==
    \/ pc'[p] = "done" /\ local'[p].m = method
    \/ method = "create_podcast" /\ pc'[p] \in {"create_insert", "create_fetch"}
    \/ method = "update_podcast" /\ pc'[p] = "update_fetch"
    \/ method = "delete_user" /\ pc'[p] = "delete_user"

\* request p executes the INSERT of create_podcast and the INSERT succeeds
InsertCommitted(p) ==
    /\ pc[p] = "create_insert" /\ pc'[p] = "create_fetch"
    /\ \E show_id \in ShowIds : CreateInsert(p, show_id, Ok)

\* request p executes the pre-check of create_podcast for show_data and goes
\* on to the INSERT
CheckPassed(p, show_data) ==
    /\ pc[p] = "idle" /\ pc'[p] = "create_insert"
    /\ CreateCheck(p, show_data, Ok)

\* request q is inside create_podcast, between its INSERT and its re-select,
\* and the row it inserted is stored
JustInserted(q) ==
    /\ pc[q] = "create_fetch"
    /\ local[q].show_id \in DOMAIN shows

\* C1 as stated: title uniqueness.  The INSERT of a create leaves no two
\* show rows with the same title, also when it runs while another create is
\* between its own INSERT and re-select (the statements of the two creates
\* interleave).
C1_TitleUniqueness ==
    [][\A p, q \in Procs :
         (InsertCommitted(p) /\ JustInserted(q) /\ TitlesUnique)
            => TitlesUnique']_vars

\* C1 amended: a create goes on to its INSERT only if no row held its title
\* when the pre-check SELECT ran, and an INSERT that runs while still no row
\* holds its title (no other request wrote the title since the pre-check)
\* leaves no two show rows with the same title.
C1_TitleUniquenessUnlessRaced ==
    [][\A p \in Procs :
         /\ \A show_data \in CreateInputs :
               CheckPassed(p, show_data) => ~TitleStored(show_data["title"])
         /\ ( /\ InsertCommitted(p)
              /\ TitlesUnique
              /\ ~TitleStored(local[p].show_data["title"]) )
            => TitlesUnique']_vars

\* a create has inserted a second show while the other request is idle, and
\* the titles are unique
C1_Witness ==
    /\ TitlesUnique
    /\ Cardinality(DOMAIN shows) = 2
    /\ \E p \in Procs : Alone(p) /\ JustInserted(p)

\* request p executes, with the driver behaving as outcome says, a step of
\* a repository method that issues a statement and ends the method
ShowStatementStep(p, outcome) ==
    \/ \E show_id \in ShowIds : GetPodcastById(p, show_id, outcome)
    \/ \E filters \in FilterInputs : FilterPodcasts(p, filters, outcome)
    \/ \E show_data \in CreateInputs : CreateCheck(p, show_data, outcome)
    \/ \E show_id \in ShowIds : CreateInsert(p, show_id, outcome)
    \/ CreateFetch(p, outcome)
    \/ \E show_id \in ShowIds, show_data \in UpdateInputs \ {EmptyDict} :
          UpdatePodcast(p, show_id, show_data, outcome)
    \/ UpdateFetch(p, outcome)
    \/ \E show_id \in ShowIds : DeletePodcast(p, show_id, outcome)

\* a returned (result, error) pair with an absent result and an error
ErrorValue(r) ==
    /\ r.kind = "returned"
    /\ r.value.t = "tuple"
    /\ r.value.items[1] \in {PyNone, PyBool(FALSE)}
    /\ r.value.items[2] # PyNone

\* C2 as stated: statement-level failures are values.  When the statement
\* of a step fails for a reason other than a connection or credentials
\* failure, the method does not raise: get_all_podcasts returns the empty
\* list, the other methods return an error value with an absent result.
C2_StatementFailuresAreValues ==
    [][\A p \in Procs, outcome \in StatementFailures :
         /\ GetAllPodcasts(p, outcome) => ret'[p] = Returned(PyList(<< >>))
         /\ ShowStatementStep(p, outcome) => ErrorValue(ret'[p])]_vars

\* C3 as stated: fatal infrastructure errors always propagate.  When the
\* connection for a statement of a repository method cannot be acquired, the
\* method ends there by raising that error.
C3_FatalErrorsPropagate ==
    [][\A p \in Procs, outcome \in ConnectFailures :
         ( \/ GetAllPodcasts(p, outcome)
           \/ ShowStatementStep(p, outcome)
           \/ UserStep(p, outcome) )
            => ( /\ pc'[p] = "done"
                 /\ ret'[p] = Raised(ProviderRaises(outcome)) )]_vars

\* C4 as stated: a partial update changes only the supplied fields.  An
\* UPDATE of an existing show whose payload sets a field but none of the
\* three revenue fields leaves the stored annual_usd of the show as it was.
C4_PartialUpdateKeepsRevenue ==
    [][\A p \in Procs, show_id \in ShowIds, show_data \in UpdateInputs :
         ( /\ UpdatePodcast(p, show_id, show_data, Ok)
           /\ show_id \in DOMAIN shows
           /\ DOMAIN show_data # {}
           /\ DOMAIN show_data \cap RevenueFieldSet = {} )
            => ( /\ show_id \in DOMAIN shows'
                 /\ shows'[show_id]["annual_usd"] =
                        shows[show_id]["annual_usd"] )]_vars

\* a Show record with the three revenue fields, each the value under its
\* year in the record's annual_usd map, 0 when the year is absent
ReadModel(show) ==
    /\ RevenueFieldSet \subseteq DOMAIN show
    /\ "annual_usd" \in DOMAIN show
    /\ show["annual_usd"].t = "dict"
    /\ \A i \in DOMAIN Years :
          show[RevenueFields[i]] =
              IF Years[i] \in DOMAIN show["annual_usd"].d
              THEN show["annual_usd"].d[Years[i]]
              ELSE PyInt(0)

\* the Show record of a returned (show, error) pair, when there is one
ReturnsShow(r) ==
    /\ r.kind = "returned"
    /\ r.value.t = "tuple"
    /\ r.value.items[1] # PyNone

\* C5 as stated: the read-model invariant.  Every Show record returned by
\* get_all_podcasts, get_podcast_by_id, create_podcast or update_podcast
\* carries the three revenue fields read from its annual_usd map.
C5_ReadModel ==
    [][\A p \in Procs, outcome \in Outcomes :
         /\ (GetAllPodcasts(p, outcome) /\ ret'[p].kind = "returned")
               => \A i \in DOMAIN ret'[p].value.items :
                     ReadModel(ret'[p].value.items[i])
         /\ ( /\ \/ \E show_id \in ShowIds : GetPodcastById(p, show_id, outcome)
                 \/ CreateFetch(p, outcome)
                 \/ UpdateFetch(p, outcome)
              /\ ReturnsShow(ret'[p]) )
               => ReadModel(ret'[p].value.items[1])]_vars

\* C6 as stated: the end state of a user delete.  Whenever delete_user
\* returns success, no users row has the id and no show_partners row has it
\* as partner_id.
C6_UserDeleteEndState ==
    [][\A p \in Procs, outcome \in Outcomes :
         ( /\ DeleteUserDelete(p, outcome)
           /\ ret'[p] = Returned(PyTuple(PyBool(TRUE), PyNone)) )
            => ( /\ local[p].user_id \notin DOMAIN users'
                 /\ \A r \in show_partners' : r[2] # local[p].user_id )]_vars

\* C7 as stated: NotFound means the id does not exist.  update_podcast with
\* a field set returns the not-found failure only when no show row has the
\* id when the UPDATE runs.
C7_NotFoundMeansMissing ==
    [][\A p \in Procs, show_id \in ShowIds, show_data \in UpdateInputs :
         ( /\ UpdatePodcast(p, show_id, show_data, Ok)
           /\ DOMAIN show_data # {}
           /\ ret'[p] = Returned(PyTuple(PyNone, NotFound)) )
            => show_id \notin DOMAIN shows]_vars

\* C8 as stated: connection release.  Every connection opened by a call is
\* closed when the call exits: between calls no connection is open.
C8_ConnectionsReleased == openConns = 0

\* C9: sequential duplicate create.  When the pre-check of a create runs
\* (its statement is executed) while a show with the create's title is
\* stored, the create returns the DuplicateTitle failure with an absent
\* result, ends without an INSERT, and leaves the shows table as it was.
C9_DuplicateCreate ==
    [][\A p \in Procs, show_data \in CreateInputs :
         ( /\ pc[p] = "idle" /\ Calls(p, "create_podcast")
           /\ TitleStored(show_data["title"])
           /\ CreateCheck(p, show_data, Ok) )
            => ( /\ pc'[p] = "done"
                 /\ ret'[p] = Returned(PyTuple(PyNone, DuplicateTitle))
                 /\ shows' = shows )]_vars

\* a create has returned DuplicateTitle while no other request is running
C9_Witness ==
    \E p \in Procs :
        /\ Alone(p)
        /\ pc[p] = "done"
        /\ ret[p] = Returned(PyTuple(PyNone, DuplicateTitle))
        /\ DOMAIN shows # {}

\* the supplied value v as a string
SuppliedString(v) == IF v.t = "int" THEN ToString(v.v) ELSE v.s

\* the JSON text with exactly the three years, each supplied year with the
\* supplied value and each other year with "0"
OverwrittenAnnualUsd(show_data) ==
    JsonText([i \in DOMAIN Years |->
                <<Years[i],
                  IF RevenueFields[i] \in DOMAIN show_data
                  THEN SuppliedString(show_data[RevenueFields[i]])
                  ELSE "0">>])

\* C10: revenue overwrite, not merge.  After an UPDATE that changed the row
\* and whose payload sets at least one revenue field, the stored annual_usd
\* has exactly the three years, the supplied ones with the supplied values
\* as strings and the others with "0", whatever it held before.
C10_RevenueOverwrite ==
    [][\A p \in Procs, show_id \in ShowIds, show_data \in UpdateInputs :
         ( /\ pc[p] = "idle" /\ pc'[p] = "update_fetch"
           /\ DOMAIN show_data \cap RevenueFieldSet # {}
           /\ UpdatePodcast(p, show_id, show_data, Ok) )
            => shows'[show_id]["annual_usd"] =
                   OverwrittenAnnualUsd(show_data)]_vars

\* an update that set only revenue_2024 has overwritten the stored map
C10_Witness ==
    \E p \in Procs :
        /\ pc[p] = "update_fetch"
        /\ local[p].show_id \in DOMAIN shows
        /\ shows[local[p].show_id]["annual_usd"] =
               JsonText(<< <<"2023", "0">>, <<"2024", "50">>,
                           <<"2025", "0">> >>)

C12_DeleteShow ==
    [][\A p \in Procs, show_id \in ShowIds :
         ( /\ pc[p] = "idle" /\ Calls(p, "delete_podcast")
           /\ DeletePodcast(p, show_id, Ok) )
            => IF show_id \notin DOMAIN shows
               THEN /\ ret'[p] = Returned(PyTuple(PyBool(FALSE), NotFound))
                    /\ shows' = shows
               ELSE /\ ret'[p] = Returned(PyTuple(PyBool(TRUE), PyNone))
                    /\ DOMAIN shows' = DOMAIN shows \ {show_id}
                    /\ \A i \in DOMAIN shows' : shows'[i] = shows[i]]_vars

\* a delete has returned the not-found failure while a show is stored
C12_Witness ==
    \E p \in Procs :
        /\ pc[p] = "done"
        /\ local[p].m = "delete_podcast"
        /\ ret[p] = Returned(PyTuple(PyBool(FALSE), NotFound))
        /\ DOMAIN shows # {}

\* C13 as stated: filter with no criteria equals getAll.  When no statement
\* fails, filter_podcasts({}) returns the sequence of Show records that
\* get_all_podcasts returns for the same shows table, record for record,
\* with the decoded annual_usd map and the three revenue fields.
C13_FilterAllEqualsGetAll ==
    [][\A p \in Procs :
         ( /\ pc[p] = "idle" /\ Calls(p, "filter_podcasts")
           /\ FilterPodcasts(p, EmptyDict, Ok) )
            => ret'[p].value.items[1] =
                   GetAllPodcastsResult(
                       ExecuteQuery(DB, SelectAllShows, Ok)).value]_vars

\* the revenue input v as the string the claim expects to be stored: "0" for
\* a missing input, str(v) otherwise (and so "0" for zero)
RevenueText(v) ==
    CASE v.t = "none" -> "0"
      [] v.t = "int" -> ToString(v.v)
      [] OTHER -> v.s

\* the map {"2023": str(a), "2024": str(b), "2025": str(c)} for the revenue
\* inputs of show_data, as JSON text
EncodedOnCreate(show_data) ==
    JsonText([i \in DOMAIN Years |->
                <<Years[i],
                  RevenueText(Get(show_data, RevenueFields[i], PyNone))>>])

\* C14: revenue encoding on create and its round trip.  The INSERT of a
\* create with revenue inputs (a, b, c) stores annual_usd as the map of the
\* three years to str(a), str(b), str(c), "0" for a missing or zero input,
\* and decoding that row gives the three revenue fields those strings; the
\* Show a create returns has the three revenue fields equal to the three
\* values stored in the row its re-select reads.
C14_RevenueRoundTrip ==
    [][\A p \in Procs :
         /\ \A show_id \in ShowIds :
               ( /\ pc[p] = "create_insert" /\ pc'[p] = "create_fetch"
                 /\ CreateInsert(p, show_id, Ok) )
                  => ( /\ show_id \in DOMAIN shows'
                       /\ shows'[show_id]["annual_usd"] =
                              EncodedOnCreate(local[p].show_data)
                       /\ \A i \in DOMAIN Years :
                             DecodeForCreate(shows'[show_id])[RevenueFields[i]]
                                = PyStr(RevenueText(
                                      Get(local[p].show_data,
                                          RevenueFields[i], PyNone))) )
         /\ ( /\ pc[p] = "create_fetch" /\ pc'[p] = "done"
              /\ CreateFetch(p, Ok)
              /\ ReturnsShow(ret'[p]) )
               => ( /\ local[p].show_id \in DOMAIN shows
                    /\ LET stored == shows[local[p].show_id]["annual_usd"]
                       IN  /\ stored.t = "str"
                           /\ Len(stored.json) = Len(Years)
                           /\ \A i \in DOMAIN Years :
                                 /\ stored.json[i][1] = Years[i]
                                 /\ ret'[p].value.items[1][RevenueFields[i]]
                                       = PyStr(stored.json[i][2]) )]_vars

\* a create has returned a Show with revenue_2023 = "100" and the other two
\* revenue fields "0"
C14_Witness ==
    \E p \in Procs :
        /\ pc[p] = "done"
        /\ local[p].m = "create_podcast"
        /\ ReturnsShow(ret[p])
        /\ ret[p].value.items[1]["revenue_2023"] = PyStr("100")
        /\ ret[p].value.items[1]["revenue_2024"] = PyStr("0")
        /\ ret[p].value.items[1]["revenue_2025"] = PyStr("0")

\* C15 as stated: create outcome matches storage.  Whenever create_podcast
\* ends without returning a Show (it returns an error value or raises), it
\* has left no new row: a create that ends at its pre-check or at its INSERT
\* leaves the shows table as it was, and after a create that ends at its
\* re-select no row with the id it inserted is stored.
C15_CreateOutcomeMatchesStorage ==
    [][\A p \in Procs, outcome \in Outcomes :
         /\ ( /\ pc[p] = "idle" /\ pc'[p] = "done"
              /\ \E show_data \in CreateInputs :
                    CreateCheck(p, show_data, outcome) )
               => shows' = shows
         /\ ( /\ pc[p] = "create_insert" /\ pc'[p] = "done"
              /\ \E show_id \in ShowIds : CreateInsert(p, show_id, outcome) )
               => shows' = shows
         /\ ( /\ pc[p] = "create_fetch" /\ pc'[p] = "done"
              /\ CreateFetch(p, outcome)
              /\ ~ReturnsShow(ret'[p]) )
               => local[p].show_id \notin DOMAIN shows']_vars

\* C16 as stated: failed user delete changes nothing.  Whenever delete_user
\* ends without success (it returns the user-not-found failure or another
\* error value, or raises) while no other request is running, the users
\* table is as it was and every show_partners row of a user that is still
\* stored is still stored (rows are removed by delete_user only, so these
\* are the rows the database started with).
C16_FailedUserDeleteChangesNothing ==
    [][\A p \in Procs, outcome \in Outcomes :
         ( /\ pc[p] = "delete_user" /\ pc'[p] = "done"
           /\ Alone(p)
           /\ DeleteUserDelete(p, outcome)
           /\ ret'[p] # Returned(PyTuple(PyBool(TRUE), PyNone)) )
            => ( /\ users' = users
                 /\ local[p].user_id \in DOMAIN users
                       => \A r \in InitialShowPartners :
                             r[2] = local[p].user_id
                                => r \in show_partners' )]_vars
====
